---- MODULE Spec2Model ----
(***************************************************************************)
(* Model of the relayer's TipProver (rust/agents/relayer/src/tip_prover.rs) *)
(* TipProver owns a Prover (full merkle tree) and an IncrementalMerkle      *)
(* (frontier accumulator) over the leaves of an AbacusDB, rebuilds them     *)
(* with from_disk and advances them with update_from_batch.                 *)
(*                                                                          *)
(* Hashes are symbolic and collision free: the hash of two nodes is the     *)
(* pair of them, the zero hash of a leaf is 0.  DB leaves are message       *)
(* hashes and therefore never the zero hash.                                *)
(***************************************************************************)
EXTENDS Integers, Sequences, FiniteSets, TLC

\* ---------------------------------------------------------------- bounds
TreeDepth == 2        \* TREE_DEPTH of the merkle trees (32 in abacus_core)
MaxLeaves == 3        \* most leaves the DB holds
MaxMsgs == 2          \* most messages in one MessageBatch
MaxCalls == 2         \* update_from_batch calls in one run of the model
MaxRestarts == 1      \* process restarts

ZERO == 0             \* H256::zero()

\* the leaf at an index of the message log: the hash of that message, which
\* no other message has
LeafOf(idx) == idx + 1

Capacity == 2 ^ TreeDepth
LeafIndex == 0 .. MaxLeaves

\* ------------------------------------------------------- symbolic hashes
hash_concat(l, r) == <<l, r>>

RECURSIVE ZeroHash(_)
ZeroHash(level) ==
    IF level = 0 THEN ZERO
    ELSE hash_concat(ZeroHash(level - 1), ZeroHash(level - 1))

\* ------------------------------------------------ Prover (full tree)
\* node number idx of the given level of the tree over `leaves`
RECURSIVE TreeNode(_, _, _)
TreeNode(leaves, level, idx) ==
    IF level = 0
    THEN IF idx < Len(leaves) THEN leaves[idx + 1] ELSE ZERO
    ELSE hash_concat(TreeNode(leaves, level - 1, 2 * idx),
                     TreeNode(leaves, level - 1, 2 * idx + 1))

ProverRoot(leaves) == TreeNode(leaves, TreeDepth, 0)

ProverCount(leaves) == Len(leaves)

\* Prover::ingest: Ok(tree) with the leaf appended, or the error MerkleTreeFull
ProverCanIngest(leaves) == Len(leaves) < Capacity

ProverIngest(leaves, leaf) == Append(leaves, leaf)

\* index shifted right by `level` bits
Shr(index, level) == index \div (2 ^ level)

Sibling(n) == IF n % 2 = 0 THEN n + 1 ELSE n - 1

\* Prover::prove: ZeroProof when index >= count, else leaf, index and path
ProveIsZeroProof(leaves, index) == index >= Len(leaves)

Prove(leaves, index) ==
    [leaf  |-> leaves[index + 1],
     index |-> index,
     path  |-> [l \in 0 .. TreeDepth - 1 |->
                   TreeNode(leaves, l, Sibling(Shr(index, l)))]]

\* --------------------------------- IncrementalMerkle (frontier accumulator)
\* branch[l] is the last complete subtree of height l; the slot at TreeDepth
\* takes the root of the full tree, so that every leaf sequence the Prover
\* accepts has its root here too
IncrementalDefault == [branch |-> [l \in 0 .. TreeDepth |-> ZERO], count |-> 0]

\* the loop of IncrementalMerkle::ingest from level i on, `size` already shifted
RECURSIVE IncIngestFrom(_, _, _, _)
IncIngestFrom(branch, node, size, i) ==
    IF i >= TreeDepth THEN [branch EXCEPT ![TreeDepth] = node]
    ELSE IF size % 2 = 1 THEN [branch EXCEPT ![i] = node]
    ELSE IncIngestFrom(branch, hash_concat(branch[i], node), size \div 2, i + 1)

IncrementalIngest(inc, leaf) ==
    [branch |-> IncIngestFrom(inc.branch, leaf, inc.count + 1, 0),
     count  |-> inc.count + 1]

\* merkle_root_from_branch over the frontier
RECURSIVE IncRootFrom(_, _, _, _)
IncRootFrom(branch, node, size, i) ==
    IF i >= TreeDepth THEN (IF size % 2 = 1 THEN branch[TreeDepth] ELSE node)
    ELSE IncRootFrom(branch,
            IF size % 2 = 1
            THEN hash_concat(branch[i], node)
            ELSE hash_concat(node, ZeroHash(i)),
            size \div 2, i + 1)

IncrementalRoot(inc) == IncRootFrom(inc.branch, ZERO, inc.count, 0)

IncrementalCount(inc) == inc.count

\* ------------------------------------------------------------ AbacusDB
\* db.leaf_by_leaf_index(i): Some(leaf) iff the DB holds leaf i
LeafPresent(leaves, idx) == idx < Len(leaves)

LeafAt(leaves, idx) == leaves[idx + 1]

\* db.proof_by_leaf_index(i): Some(proof) iff a proof is stored for i
ProofPresent(proofs, idx) == idx \in DOMAIN proofs

\* db.store_proof(i, proof)
DbStoreProof(proofs, idx, proof) ==
    [j \in (DOMAIN proofs) \cup {idx} |-> IF j = idx THEN proof ELSE proofs[j]]

NoProofs == [j \in {} |-> 0]

SeqsUpTo(S, n) == UNION {[1 .. k -> S] : k \in 0 .. n}

\* the DB with its first n leaves written
DbWith(n) == [k \in 1 .. n |-> LeafOf(k - 1)]

\* the merkle root of the first n leaves of the DB
TrueRoot(leaves, n) == ProverRoot(SubSeq(leaves, 1, n))

\* a root that is the root of no prefix of the message log
CorruptRoot == ProverRoot(<<LeafOf(MaxLeaves + 1)>>)

\* roots a latest-root pointer or a signed checkpoint may carry
RootsFor(leaves) == {TrueRoot(leaves, n) : n \in 0 .. Len(leaves)} \cup {CorruptRoot}

NoRoot == [some |-> FALSE, root |-> ZeroHash(TreeDepth)]

SomeRoot(r) == [some |-> TRUE, root |-> r]

\* ------------------------------------------------------------ results
NoResult == [kind |-> "None", leaf_index |-> 0, roots |-> <<>>]

OkResult == [kind |-> "Ok", leaf_index |-> 0, roots |-> <<>>]

DbErrorResult == [kind |-> "DbError", leaf_index |-> 0, roots |-> <<>>]

UnavailableLeaf(idx) == [kind |-> "UnavailableLeaf", leaf_index |-> idx, roots |-> <<>>]

MismatchedRoots(pr, ir, cr) ==
    [kind |-> "MismatchedRoots", leaf_index |-> 0, roots |-> <<pr, ir, cr>>]

\* ------------------------------------------------------------ MessageBatch
MessageBatch(messages, current_checkpoint_index, index, root) ==
    [messages |-> messages,
     current_checkpoint_index |-> current_checkpoint_index,
     target_index |-> index,
     target_root |-> root]

NoBatch == MessageBatch(<<>>, 0, 0, ZeroHash(TreeDepth))

\* ------------------------------------------------------------ state
VARIABLES
    db_leaves,        \* AbacusDB: the leaves, index i at position i + 1
    db_latest_root,   \* AbacusDB: the latest root pointer
    db_proofs,        \* AbacusDB: leaf index -> stored proof
    prover,           \* TipProver.prover: the leaves of the full tree
    incremental,      \* TipProver.incremental
    pc,               \* position of the process
    i,                \* loop variable of the running loop
    target,           \* from_disk: the root read from the DB
    batch,            \* update_from_batch: its argument
    result,           \* what the last update_from_batch returned
    ingest_log,       \* DB indices ingested so far, in order
    call,             \* at the start of the running call: count, proofs, log
    prev,             \* the previous call: result, count and root after it
    retry,            \* the running call was given the previous call's batch
    calls,            \* update_from_batch calls made so far
    syncs,            \* update_from_batch calls made on this TipProver
    restarts,         \* restarts so far
    db_error,         \* where a DB access of this process failed, if one did
    recovered         \* what the last from_disk that returned had rebuilt

vars == <<db_leaves, db_latest_root, db_proofs, prover, incremental, pc, i,
          target, batch, result, ingest_log, call, prev, retry, calls,
          syncs, restarts, db_error, recovered>>

db == <<db_leaves, db_latest_root, db_proofs>>

NoCall == [count |-> 0, proofs |-> NoProofs, log |-> <<>>]

NoPrev == [result |-> NoResult, count |-> 0, root |-> ZeroHash(TreeDepth)]

NoRecovered == [some |-> FALSE, count |-> 0, root |-> ZeroHash(TreeDepth)]

Init ==
    /\ db_leaves \in {DbWith(n) : n \in 0 .. MaxLeaves}
    /\ db_latest_root \in {NoRoot} \cup {SomeRoot(r) : r \in RootsFor(db_leaves)}
    /\ db_proofs = NoProofs
    /\ prover = <<>>
    /\ incremental = IncrementalDefault
    /\ pc = "uninitialized"
    /\ i = 0
    /\ target = ZeroHash(TreeDepth)
    /\ batch = NoBatch
    /\ result = NoResult
    /\ ingest_log = <<>>
    /\ call = NoCall
    /\ prev = NoPrev
    /\ retry = FALSE
    /\ calls = 0
    /\ syncs = 0
    /\ restarts = 0
    /\ db_error = "none"
    /\ recovered = NoRecovered

\* ------------------------------------------------------------ store_proof
\* store_proof without the ZeroProof arm: a proof is written for any index
StoreProofUnguarded(proofs, leaves, leaf_index) ==
    IF ProveIsZeroProof(leaves, leaf_index)
    THEN DbStoreProof(proofs, leaf_index,
            [leaf |-> ZERO, index |-> leaf_index,
             path |-> [l \in 0 .. TreeDepth - 1 |-> ZeroHash(l)]])
    ELSE DbStoreProof(proofs, leaf_index, Prove(leaves, leaf_index))

\* the DB's proofs after store_proof(leaf_index) returned Ok
StoreProofOk(proofs, leaves, leaf_index) ==
    IF ProveIsZeroProof(leaves, leaf_index)
    THEN proofs
    ELSE DbStoreProof(proofs, leaf_index, Prove(leaves, leaf_index))

\* store_proof can return Err only from db.store_proof
StoreProofCanFail(leaves, leaf_index) == ~ProveIsZeroProof(leaves, leaf_index)

\* ------------------------------------------------------------ from_disk
\* a failed DB access of from_disk taken as nothing found: from_disk goes on
RecoveryDbErrorIgnored ==
    /\ pc' = "backfill"
    /\ db_error' = "recovery"

\* a failed DB access of from_disk: the expect and the panic! end the process
RecoveryDbError ==
    /\ pc' = "aborted"
    /\ db_error' = "recovery"

\* from_disk that replays whether or not the DB has a latest root
FromDiskStartAlwaysReplay ==
    /\ pc = "uninitialized"
    /\ \/ /\ pc' = "replay"
          /\ target' = db_latest_root.root
          /\ UNCHANGED db_error
       \/ /\ RecoveryDbError
          /\ UNCHANGED target
    /\ i' = 0
    /\ UNCHANGED <<db, prover, incremental, batch, result, ingest_log, call,
                   prev, retry, calls, syncs, restarts, recovered>>

\* db.retrieve_latest_root()
FromDiskStart ==
    /\ pc = "uninitialized"
    /\ \/ /\ db_latest_root.some
          /\ pc' = "replay"
          /\ target' = db_latest_root.root
          /\ UNCHANGED db_error
       \/ /\ ~db_latest_root.some
          /\ pc' = "backfill"
          /\ UNCHANGED <<target, db_error>>
       \/ /\ RecoveryDbError       \* expect("db error")
          /\ UNCHANGED target
    /\ i' = 0
    /\ UNCHANGED <<db, prover, incremental, batch, result, ingest_log, call,
                   prev, retry, calls, syncs, restarts, recovered>>

\* Ok(None) of the replay loop taken as a leaf to wait for: the loop asks for
\* the same index again
ReplayLeafMissingRescans ==
    /\ pc' = "replay"
    /\ i' = i

\* Ok(None) of the replay loop taken as a fault of the DB
ReplayLeafMissingAborts ==
    /\ pc' = "aborted"
    /\ i' = i

\* Ok(None) => break: the replay loop ends and the backfill loop begins
ReplayLeafMissing ==
    /\ pc' = "backfill"
    /\ i' = 0

\* the replay loop without its break on the latest root
ReplayDoneNever(root, latest) == FALSE

\* the replay loop stops once the root is the latest root
ReplayDone(root, latest) == root = latest

\* one iteration of `for i in 0..`
ReplayStep ==
    /\ pc = "replay"
    /\ \/ /\ LeafPresent(db_leaves, i)
          /\ IF ~ProverCanIngest(prover)
             THEN /\ pc' = "aborted"          \* expect("!tree full")
                  /\ UNCHANGED <<prover, incremental, ingest_log, i, db_error>>
             ELSE /\ prover' = ProverIngest(prover, LeafAt(db_leaves, i))
                  /\ incremental' = IncrementalIngest(incremental, LeafAt(db_leaves, i))
                  /\ ingest_log' = Append(ingest_log, i)
                  /\ UNCHANGED db_error
                  /\ IF ProverRoot(prover') # IncrementalRoot(incremental')
                     THEN pc' = "aborted" /\ i' = i      \* assert_eq!
                     ELSE IF ReplayDone(ProverRoot(prover'), target)
                          THEN pc' = "backfill" /\ i' = 0
                          ELSE pc' = "replay" /\ i' = i + 1
       \/ /\ ~LeafPresent(db_leaves, i)
          /\ ReplayLeafMissing
          /\ UNCHANGED <<prover, incremental, ingest_log, db_error>>
       \/ /\ RecoveryDbError       \* panic!("Error in TipProver::from_disk")
          /\ UNCHANGED <<prover, incremental, ingest_log, i>>
    /\ UNCHANGED <<db, target, batch, result, call, prev, retry, calls, syncs,
                   restarts, recovered>>

\* Ok(sync): from_disk returns the TipProver it has rebuilt
FromDiskReturn ==
    /\ pc' = "ready"
    /\ i' = 0
    /\ recovered' = [some |-> TRUE, count |-> ProverCount(prover),
                     root |-> ProverRoot(prover)]

\* the match of the backfill loop asks for a proof on (Some(_), None)
NeedsProof(leafPresent, proofPresent) == leafPresent /\ ~proofPresent

\* one iteration of `for i in 0..sync.prover.count()`, or its end
BackfillStep ==
    /\ pc = "backfill"
    /\ \/ /\ i >= ProverCount(prover)
          /\ FromDiskReturn
          /\ UNCHANGED <<db_proofs, db_error>>
       \/ /\ i < ProverCount(prover)
          /\ \/ /\ NeedsProof(LeafPresent(db_leaves, i), ProofPresent(db_proofs, i))
                /\ db_proofs' = StoreProofOk(db_proofs, prover, i)
                /\ pc' = "backfill"
                /\ i' = i + 1
                /\ UNCHANGED <<db_error, recovered>>
             \/ /\ ~LeafPresent(db_leaves, i)
                /\ FromDiskReturn
                /\ UNCHANGED <<db_proofs, db_error>>
             \/ /\ LeafPresent(db_leaves, i)
                /\ ProofPresent(db_proofs, i)
                /\ pc' = "backfill"
                /\ i' = i + 1
                /\ UNCHANGED <<db_proofs, db_error, recovered>>
             \/ /\ RecoveryDbError      \* expect("db error")
                /\ UNCHANGED <<db_proofs, i, recovered>>
    /\ UNCHANGED <<db_leaves, db_latest_root, prover, incremental, target,
                   batch, result, ingest_log, call, prev, retry, calls, syncs, restarts>>

\* ------------------------------------------------------------ update_from_batch
Batches ==
    {MessageBatch(m, c, t, r) :
        m \in SeqsUpTo(LeafIndex, MaxMsgs),
        c \in LeafIndex,
        t \in LeafIndex,
        r \in RootsFor(db_leaves)}

\* the first loop is (self.prover.count() as u32)..batch.current_checkpoint_index + 1
FastForwardStart(count, b) == count

\* the first loop ending before current_checkpoint_index
FastForwardEndExclusive(b) == b.current_checkpoint_index

FastForwardEnd(b) == b.current_checkpoint_index + 1

\* the second loop is (batch.current_checkpoint_index + 1)..checkpoint.index
AdvanceStart(b) == b.current_checkpoint_index + 1

AdvanceEnd(b) == b.target_index

\* update_from_batch(&batch) is entered
Enter(b) ==
    /\ calls < MaxCalls
    /\ calls' = calls + 1
    /\ syncs' = syncs + 1
    /\ batch' = b
    /\ i' = FastForwardStart(ProverCount(prover), b)
    /\ pc' = "fast_forward"
    /\ result' = NoResult
    /\ call' = [count |-> ProverCount(prover), proofs |-> db_proofs, log |-> ingest_log]
    /\ db_error' = "none"
    /\ UNCHANGED <<db, prover, incremental, target, ingest_log, restarts, recovered>>

\* the caller hands a new batch to update_from_batch
UpdateStart ==
    /\ pc = "ready"
    /\ \E b \in Batches : Enter(b)
    /\ retry' = FALSE
    /\ prev' = NoPrev

\* the caller hands the batch of the call that just returned to
\* update_from_batch again
Retry ==
    /\ pc = "returned"
    /\ Enter(batch)
    /\ retry' = TRUE
    /\ prev' = [result |-> result, count |-> ProverCount(prover),
                root |-> ProverRoot(prover)]

\* the caller is done with the batch of the call that returned
BatchDone ==
    /\ pc = "returned"
    /\ pc' = "ready"
    /\ batch' = NoBatch
    /\ result' = NoResult
    /\ call' = NoCall
    /\ prev' = NoPrev
    /\ retry' = FALSE
    /\ db_error' = "none"
    /\ UNCHANGED <<db, prover, incremental, i, target, ingest_log, calls, syncs,
                   restarts, recovered>>

\* update_from_batch returns r to its caller
Return(r) ==
    /\ result' = r
    /\ pc' = "returned"
    /\ i' = 0

\* a failed DB access of update_from_batch unwrapped with expect
SyncDbErrorPanics ==
    /\ pc' = "panicked"
    /\ db_error' = "sync"
    /\ UNCHANGED <<result, i>>

\* Err(e) => Err(e.into()) and the ? on db.store_proof: a failed DB access
\* of update_from_batch is returned to the caller as DbError
SyncDbError ==
    /\ Return(DbErrorResult)
    /\ db_error' = "sync"

\* Ok(None) of ingest_leaf_index(leaf_index) taken as nothing to ingest: the
\* loop goes on to the next index
LeafMissingSkipped(leaf_index, nextPc, nextI) ==
    /\ pc' = nextPc
    /\ i' = nextI
    /\ UNCHANGED result

\* Ok(None) of ingest_leaf_index(leaf_index): UnavailableLeaf is returned
LeafMissing(leaf_index, nextPc, nextI) == Return(UnavailableLeaf(leaf_index))

\* ingest_leaf_index that ingests into the Prover alone and asserts nothing
IngestLeafIndexProverOnly(leaf_index, nextPc, nextI) ==
    \/ /\ LeafPresent(db_leaves, leaf_index)
       /\ IF ~ProverCanIngest(prover)
          THEN /\ pc' = "panicked"
               /\ UNCHANGED <<prover, incremental, ingest_log, i, result, db_error>>
          ELSE /\ prover' = ProverIngest(prover, LeafAt(db_leaves, leaf_index))
               /\ ingest_log' = Append(ingest_log, leaf_index)
               /\ pc' = nextPc
               /\ i' = nextI
               /\ UNCHANGED <<incremental, result, db_error>>
    \/ /\ ~LeafPresent(db_leaves, leaf_index)
       /\ result' = UnavailableLeaf(leaf_index)
       /\ pc' = "returned"
       /\ i' = 0
       /\ UNCHANGED <<prover, incremental, ingest_log, db_error>>
    \/ /\ result' = DbErrorResult
       /\ pc' = "returned"
       /\ i' = 0
       /\ db_error' = "sync"
       /\ UNCHANGED <<prover, incremental, ingest_log>>

\* ingest_leaf_index(leaf_index), continuing at nextPc with i = nextI on Ok
IngestLeafIndex(leaf_index, nextPc, nextI) ==
    \/ /\ LeafPresent(db_leaves, leaf_index)
       /\ IF ~ProverCanIngest(prover)
          THEN /\ pc' = "panicked"         \* expect("!tree full")
               /\ UNCHANGED <<prover, incremental, ingest_log, i, result, db_error>>
          ELSE /\ prover' = ProverIngest(prover, LeafAt(db_leaves, leaf_index))
               /\ incremental' = IncrementalIngest(incremental, LeafAt(db_leaves, leaf_index))
               /\ ingest_log' = Append(ingest_log, leaf_index)
               /\ UNCHANGED <<result, db_error>>
               /\ IF ProverRoot(prover') # IncrementalRoot(incremental')
                  THEN pc' = "panicked" /\ i' = i     \* assert_eq!
                  ELSE pc' = nextPc /\ i' = nextI
    \/ /\ ~LeafPresent(db_leaves, leaf_index)
       /\ LeafMissing(leaf_index, nextPc, nextI)
       /\ UNCHANGED <<prover, incremental, ingest_log, db_error>>
    \/ /\ SyncDbError
       /\ UNCHANGED <<prover, incremental, ingest_log>>

\* one iteration of the fast-forward loop, or its end
FastForwardStep ==
    /\ pc = "fast_forward"
    /\ \/ /\ i < FastForwardEnd(batch)
          /\ IngestLeafIndex(i, "fast_forward", i + 1)
       \/ /\ i >= FastForwardEnd(batch)
          /\ pc' = "advance"
          /\ i' = AdvanceStart(batch)
          /\ UNCHANGED <<prover, incremental, ingest_log, result, db_error>>
    /\ UNCHANGED <<db, target, batch, call, prev, retry, calls, syncs, restarts,
                   recovered>>

\* one iteration of the loop up to the target, or its end
AdvanceStep ==
    /\ pc = "advance"
    /\ \/ /\ i < AdvanceEnd(batch)
          /\ IngestLeafIndex(i, "advance", i + 1)
       \/ /\ i >= AdvanceEnd(batch)
          /\ pc' = "validate"
          /\ i' = 0
          /\ UNCHANGED <<prover, incremental, ingest_log, result, db_error>>
    /\ UNCHANGED <<db, target, batch, call, prev, retry, calls, syncs, restarts,
                   recovered>>

\* the comparison without the checkpoint root
RootsMismatchLocalOnly(prover_root, incremental_root, checkpoint_root) ==
    prover_root # incremental_root

\* if prover_root != incremental_root || prover_root != checkpoint_root
RootsMismatch(prover_root, incremental_root, checkpoint_root) ==
    prover_root # incremental_root \/ prover_root # checkpoint_root

\* the comparison of the three roots that, on a mismatch, takes the leaves
\* of this call out of the Prover again
ValidateRollback ==
    /\ pc = "validate"
    /\ IF RootsMismatch(ProverRoot(prover), IncrementalRoot(incremental), batch.target_root)
       THEN /\ Return(MismatchedRoots(ProverRoot(prover), IncrementalRoot(incremental),
                                      batch.target_root))
            /\ prover' = SubSeq(prover, 1, call.count)
       ELSE /\ pc' = "prove"
            /\ i' = 1
            /\ UNCHANGED <<result, prover>>
    /\ UNCHANGED <<db, incremental, target, batch, ingest_log, call, prev,
                   retry, calls, syncs, restarts, db_error, recovered>>

\* the comparison of the three roots
Validate ==
    /\ pc = "validate"
    /\ IF RootsMismatch(ProverRoot(prover), IncrementalRoot(incremental), batch.target_root)
       THEN Return(MismatchedRoots(ProverRoot(prover), IncrementalRoot(incremental),
                                   batch.target_root))
       ELSE /\ pc' = "prove"
            /\ i' = 1
            /\ UNCHANGED result
    /\ UNCHANGED <<db, prover, incremental, target, batch, ingest_log, call, prev,
                   retry, calls, syncs, restarts, db_error, recovered>>

\* one iteration of `for message in &batch.messages`, or Ok(()) after it
ProveStep ==
    /\ pc = "prove"
    /\ \/ /\ i <= Len(batch.messages)
          /\ \/ /\ db_proofs' = StoreProofOk(db_proofs, prover, batch.messages[i])
                /\ i' = i + 1
                /\ UNCHANGED <<pc, result, db_error>>
             \/ /\ StoreProofCanFail(prover, batch.messages[i])
                /\ SyncDbError
                /\ UNCHANGED db_proofs
       \/ /\ i > Len(batch.messages)
          /\ Return(OkResult)
          /\ UNCHANGED <<db_proofs, db_error>>
    /\ UNCHANGED <<db_leaves, db_latest_root, prover, incremental, target, batch,
                   ingest_log, call, prev, retry, calls, syncs, restarts, recovered>>

\* a restart whose from_disk begins with the trees of the previous run
RestartKeepsTrees ==
    /\ pc \in {"ready", "returned", "aborted", "panicked"}
    /\ restarts < MaxRestarts
    /\ restarts' = restarts + 1
    /\ pc' = "uninitialized"
    /\ i' = 0
    /\ target' = ZeroHash(TreeDepth)
    /\ batch' = NoBatch
    /\ result' = NoResult
    /\ ingest_log' = <<>>
    /\ call' = NoCall
    /\ prev' = NoPrev
    /\ retry' = FALSE
    /\ syncs' = 0
    /\ db_error' = "none"
    /\ UNCHANGED <<db, prover, incremental, calls, recovered>>

\* the process is started again: from_disk begins with default trees
Restart ==
    /\ pc \in {"ready", "returned", "aborted", "panicked"}
    /\ restarts < MaxRestarts
    /\ restarts' = restarts + 1
    /\ prover' = <<>>
    /\ incremental' = IncrementalDefault
    /\ pc' = "uninitialized"
    /\ i' = 0
    /\ target' = ZeroHash(TreeDepth)
    /\ batch' = NoBatch
    /\ result' = NoResult
    /\ ingest_log' = <<>>
    /\ call' = NoCall
    /\ prev' = NoPrev
    /\ retry' = FALSE
    /\ syncs' = 0
    /\ db_error' = "none"
    /\ UNCHANGED <<db, calls, recovered>>

Next ==
    \/ FromDiskStart
    \/ ReplayStep
    \/ BackfillStep
    \/ UpdateStart
    \/ Retry
    \/ BatchDone
    \/ FastForwardStep
    \/ AdvanceStep
    \/ Validate
    \/ ProveStep
    \/ Restart

Spec == Init /\ [][Next]_vars

\* a step of from_disk whose DB accesses succeed
RecoveryStep == (FromDiskStart \/ ReplayStep \/ BackfillStep) /\ db_error' = db_error

\* from_disk is one sequential function run to its end by the thread that
\* called it: while it can take a step it takes one.  No DB access is
\* required to fail, so the fairness is on the steps that succeed.
FairSpec == Spec /\ WF_vars(RecoveryStep)

\* ------------------------------------------------------------ observations
Count == ProverCount(prover)

\* from_disk or update_from_batch has returned: the caller holds the TipProver
Observable == pc \in {"ready", "returned"}

\* update_from_batch has just returned
Returned == pc = "returned"

TypeOK ==
    /\ pc \in {"uninitialized", "replay", "backfill", "ready", "returned", "fast_forward",
               "advance", "validate", "prove", "aborted", "panicked"}
    /\ Len(prover) <= Capacity
    /\ calls \in 0 .. MaxCalls
    /\ syncs \in 0 .. calls
    /\ restarts \in 0 .. MaxRestarts

\* from_disk has just returned this TipProver
FromDiskReturned == pc = "ready" /\ syncs = 0

\* from_disk is running
InFromDisk == pc \in {"uninitialized", "replay", "backfill"}

\* the DB has a latest root and no prefix of its leaves has that root
NoPrefixHasLatestRoot ==
    /\ db_latest_root.some
    /\ \A n \in 0 .. Len(db_leaves) : TrueRoot(db_leaves, n) # db_latest_root.root

\* the DB's latest root is the root of all the leaves the DB holds
LatestRootIsTrueRoot ==
    /\ db_latest_root.some
    /\ db_latest_root.root = TrueRoot(db_leaves, Len(db_leaves))

\* update_from_batch is running
InCall == pc \in {"fast_forward", "advance", "validate", "prove"}

\* the DB indices 0 .. n - 1 in order
Contiguous(n) == [k \in 1 .. n |-> k - 1]

\* the leaf indices of the batch's messages
MessageIndices(b) == {b.messages[k] : k \in 1 .. Len(b.messages)}

\* the DB indices the running call has ingested
IngestedInCall == SubSeq(ingest_log, Len(call.log) + 1, Len(ingest_log))

\* the end of the loop that is running, fast-forward or advance
LoopEnd == IF pc = "fast_forward" THEN FastForwardEnd(batch) ELSE AdvanceEnd(batch)

\* a loop of update_from_batch is about to call ingest_leaf_index(i)
NeedsLeaf == pc \in {"fast_forward", "advance"} /\ i < LoopEnd

\* ------------------------------------------------------------ C1
\* C1: every ingestion of DB leaf index i happens when the trees hold exactly
\* i leaves, so the ingested indices are always 0, 1, 2, ... in order, none
\* skipped and none ingested twice.
C1_ContiguousIngestion == ingest_log = Contiguous(Len(ingest_log))

\* ------------------------------------------------------------ C2
\* C2: when update_from_batch is run again with the batch of a run that
\* returned Ok, the re-run ingests no leaf and returns with the count and the
\* root the first run left.
C2_RetryIdempotent ==
    (retry /\ prev.result.kind = "Ok" /\ (InCall \/ Returned \/ pc = "panicked"))
        => /\ IngestedInCall = <<>>
           /\ Count = prev.count
           /\ ProverRoot(prover) = prev.root

\* ------------------------------------------------------------ C3
\* C3: when both loops of update_from_batch have completed, both trees hold
\* exactly as many leaves as the target checkpoint's index.
C3_CountIsTargetAtValidation ==
    pc = "validate"
        => /\ Count = batch.target_index
           /\ IncrementalCount(incremental) = batch.target_index

\* ------------------------------------------------------------ C4
\* C4: update_from_batch returns Ok only when the three roots are equal and
\* both trees hold exactly as many leaves as the target checkpoint's index.
C4_OkOnlyWhenSatisfied ==
    (Returned /\ result.kind = "Ok")
        => /\ ProverRoot(prover) = IncrementalRoot(incremental)
           /\ ProverRoot(prover) = batch.target_root
           /\ Count = batch.target_index
           /\ IncrementalCount(incremental) = batch.target_index

\* ------------------------------------------------------------ C5
\* C5: within a call no proof is written before the validation has succeeded:
\* the DB's proofs are those of the call's start until the proving loop, the
\* proving loop runs only with the three roots equal, and a validation that
\* finds the checkpoint root different from the local root returns
\* MismatchedRoots with the DB's proofs as they were at the call's start.
C5_ProofsOnlyAfterValidation ==
    [][ /\ pc' \in {"fast_forward", "advance", "validate"} => db_proofs' = call'.proofs
        /\ pc' = "prove" => /\ ProverRoot(prover') = batch'.target_root
                            /\ IncrementalRoot(incremental') = batch'.target_root
        /\ (pc = "validate" /\ ProverRoot(prover) # batch.target_root)
              => /\ pc' = "returned"
                 /\ result'.kind = "MismatchedRoots"
                 /\ db_proofs' = call.proofs
        /\ (pc' = "returned" /\ result'.kind = "MismatchedRoots")
              => db_proofs' = call'.proofs ]_vars

\* a call returned MismatchedRoots for a batch with a message whose leaf is in
\* the tree, and no proof was stored for it
C5_Witness ==
    /\ Returned
    /\ result.kind = "MismatchedRoots"
    /\ \E m \in MessageIndices(batch) : m < Count /\ ~ProofPresent(db_proofs, m)

\* ------------------------------------------------------------ C6
\* C6: with the DB holding N leaves, no DB fault, a batch whose
\* current_checkpoint_index is at most N, whose target checkpoint has index N
\* and the true root of the N leaves, and whose messages are among those
\* leaves, update_from_batch returns Ok and leaves a proof for every message.
C6_Premise ==
    /\ batch.current_checkpoint_index <= Len(db_leaves)
    /\ batch.target_index = Len(db_leaves)
    /\ batch.target_root = TrueRoot(db_leaves, Len(db_leaves))
    /\ \A m \in MessageIndices(batch) : m < Len(db_leaves)

C6_BatchSyncSucceeds ==
    /\ (Returned /\ result.kind # "DbError" /\ C6_Premise)
          => /\ result.kind = "Ok"
             /\ \A m \in MessageIndices(batch) : ProofPresent(db_proofs, m)
    /\ pc = "panicked" => ~C6_Premise

\* ------------------------------------------------------------ C7
\* C7: for a TipProver holding exactly the first c DB leaves, a DB holding
\* leaves 0 .. T - 1 with T > c, and a batch with current_checkpoint_index c,
\* target checkpoint (T, true root of the first T leaves) and messages with
\* leaf indices in c .. T - 1, update_from_batch (absent DB faults) returns
\* Ok, both trees end with T leaves and every message has a stored proof.
C7_Premise ==
    /\ call.count = batch.current_checkpoint_index
    /\ call.log = Contiguous(call.count)
    /\ batch.target_index > batch.current_checkpoint_index
    /\ Len(db_leaves) >= batch.target_index
    /\ batch.target_root = TrueRoot(db_leaves, batch.target_index)
    /\ \A m \in MessageIndices(batch) :
          batch.current_checkpoint_index <= m /\ m < batch.target_index

C7_IncrementalSync ==
    /\ (Returned /\ result.kind # "DbError" /\ C7_Premise)
          => /\ result.kind = "Ok"
             /\ Count = batch.target_index
             /\ IncrementalCount(incremental) = batch.target_index
             /\ ProverRoot(prover) = batch.target_root
             /\ \A m \in MessageIndices(batch) : ProofPresent(db_proofs, m)
    /\ (pc = "panicked" /\ syncs > 0) => ~C7_Premise

\* a recovered TipProver with one leaf was brought to two by a batch with a
\* message for the new leaf
C7_Witness ==
    /\ Returned
    /\ C7_Premise
    /\ result.kind = "Ok"
    /\ batch.current_checkpoint_index >= 1
    /\ Len(batch.messages) >= 1
    /\ ~ProofPresent(call.proofs, batch.messages[1])

C9_TreesAgree ==
    Observable
        => /\ IncrementalCount(incremental) = ProverCount(prover)
           /\ IncrementalRoot(incremental) = ProverRoot(prover)

\* update_from_batch returned an error with three leaves in the trees
C9_Witness ==
    /\ Returned
    /\ result.kind = "MismatchedRoots"
    /\ Count = 3
    /\ IncrementalCount(incremental) = 3

\* ------------------------------------------------------------ C10
\* C10: a proof for leaf index j is written to the DB only when the Prover
\* holds more than j leaves, and a store_proof request of the proving loop for
\* an index at or beyond the count succeeds, writes nothing and leaves both
\* trees as they are.
C10_ProofOnlyForIngested ==
    [][ /\ \A j \in DOMAIN db_proofs' :
              (~ProofPresent(db_proofs, j) \/ db_proofs'[j] # db_proofs[j])
                  => /\ j < ProverCount(prover)
                     /\ db_proofs'[j].index = j
        /\ (pc = "prove" /\ i <= Len(batch.messages)
               /\ batch.messages[i] >= ProverCount(prover))
              => /\ db_proofs' = db_proofs
                 /\ prover' = prover
                 /\ incremental' = incremental
                 /\ pc' = "prove"
                 /\ i' = i + 1 ]_vars

\* the proving loop has passed a message whose index is beyond the count and
\* the call returned Ok without a proof for it
C10_Witness ==
    /\ Returned
    /\ result.kind = "Ok"
    /\ \E m \in MessageIndices(batch) : m >= Count /\ ~ProofPresent(db_proofs, m)

\* ------------------------------------------------------------ C11
\* C11: when a loop of update_from_batch asks for leaf index i and the DB's
\* read answers that there is no leaf at i, that step returns UnavailableLeaf
\* carrying i without passing through the root validation, it leaves both
\* trees as they were, the call has ingested only indices below i, and the
\* call has written no proof.
C11_UnavailableLeafNotSkipped ==
    [][(NeedsLeaf /\ ~LeafPresent(db_leaves, i) /\ db_error' = db_error)
        => /\ pc' = "returned"
           /\ result' = UnavailableLeaf(i)
           /\ prover' = prover
           /\ incremental' = incremental
           /\ ingest_log' = ingest_log
           /\ \A k \in 1 .. Len(IngestedInCall) : IngestedInCall[k] < i
           /\ db_proofs' = call.proofs]_vars

\* a call that ingested a leaf and then returned UnavailableLeaf
C11_Witness ==
    /\ Returned
    /\ result.kind = "UnavailableLeaf"
    /\ Len(IngestedInCall) >= 1
    /\ ~LeafPresent(db_leaves, result.leaf_index)

\* ------------------------------------------------------------ C12
\* C12: when a loop of update_from_batch reads a leaf and the Prover cannot
\* take it because the tree is full, that step returns a ProverError to the
\* caller of update_from_batch: the process does not abort.
C12_ProverFaultReturned ==
    [][(NeedsLeaf /\ LeafPresent(db_leaves, i) /\ ~ProverCanIngest(prover)
            /\ db_error' = db_error)
        => (pc' = "returned" /\ result'.kind = "ProverError")]_vars

\* ------------------------------------------------------------ C13
\* C13: once a DB access of from_disk has failed (the latest root, a leaf of
\* the replay, a leaf, a proof or the write of a proof of the backfill), the
\* process is aborted: from_disk never returns a TipProver after it.
C13_RecoveryFaultFatal == db_error = "recovery" => pc = "aborted"

\* from_disk aborted on a failed DB access after it had ingested a leaf
C13_Witness == pc = "aborted" /\ db_error = "recovery" /\ Len(prover) >= 1

\* ------------------------------------------------------------ C14
\* C14: once a DB read of a leaf or a DB write of a proof has failed inside
\* update_from_batch, the call has returned DbError to its caller, the
\* process has not aborted, and the TipProver is the one the call had built
\* up to the failure, with both trees in agreement, ready for the next call.
C14_SyncFaultReturned ==
    db_error = "sync"
        => /\ Returned
           /\ result = DbErrorResult
           /\ Len(prover) = call.count + Len(IngestedInCall)
           /\ ProverRoot(prover) = IncrementalRoot(incremental)
           /\ IncrementalCount(incremental) = ProverCount(prover)

\* the call made after a call that returned DbError has returned Ok
C14_Witness ==
    /\ Returned
    /\ retry
    /\ prev.result.kind = "DbError"
    /\ result.kind = "Ok"

C16_TooFewLeavesNotFatal ==
    [][NoPrefixHasLatestRoot
        => /\ (pc = "replay" /\ pc' # "replay" /\ db_error' = db_error)
                => /\ pc' = "backfill"
                   /\ i = Len(db_leaves)
                   /\ ~LeafPresent(db_leaves, i)
                   /\ ingest_log' = Contiguous(Len(db_leaves))
           /\ pc' = "aborted" => db_error' = "recovery"
           /\ (InFromDisk /\ pc' = "ready")
                => /\ ProverCount(prover') = Len(db_leaves)
                   /\ IncrementalCount(incremental') = Len(db_leaves)
                   /\ ProverRoot(prover') # db_latest_root.root]_vars

\* from_disk has returned over a DB of two or more leaves whose latest root
\* no prefix has
C16_Witness ==
    /\ FromDiskReturned
    /\ NoPrefixHasLatestRoot
    /\ Len(db_leaves) >= 2
    /\ Count = Len(db_leaves)

\* ------------------------------------------------------------ C17
\* C17: over a DB whose latest root is the root of all its leaves, when
\* from_disk has returned, the process is started again with nothing done in
\* between, and from_disk returns a second time (now finding the proofs the
\* first run wrote), the second TipProver has the count and the root of the
\* first.
C17_RecoveryIdempotent ==
    [][(pc = "backfill" /\ pc' = "ready" /\ recovered.some /\ calls = 0
            /\ LatestRootIsTrueRoot)
        => /\ ProverCount(prover') = recovered.count
           /\ ProverRoot(prover') = recovered.root
           /\ IncrementalCount(incremental') = recovered.count
           /\ IncrementalRoot(incremental') = recovered.root
           /\ recovered' = recovered]_vars

\* the second from_disk in succession is about to return over a DB of two
\* or more leaves, all with the proofs of the first run
C17_Witness ==
    /\ pc = "backfill"
    /\ i >= ProverCount(prover)
    /\ recovered.some
    /\ restarts = 1
    /\ calls = 0
    /\ LatestRootIsTrueRoot
    /\ Len(db_leaves) >= 2
    /\ \A k \in 0 .. Len(db_leaves) - 1 : ProofPresent(db_proofs, k)

\* ------------------------------------------------------------ C18
\* C18: when update_from_batch has returned MismatchedRoots, every leaf its
\* two loops ingested is still in both trees, after the leaves the trees held
\* when the call began (count = count at the start + leaves ingested), and
\* the TipProver is back with the caller for the next call.
C18_NoRollback ==
    (Returned /\ result.kind = "MismatchedRoots")
        => /\ ProverCount(prover) = call.count + Len(IngestedInCall)
           /\ IncrementalCount(incremental) = call.count + Len(IngestedInCall)
           /\ SubSeq(prover, call.count + 1, Len(prover))
                = [k \in 1 .. Len(IngestedInCall) |->
                      LeafAt(db_leaves, IngestedInCall[k])]
           /\ IncrementalRoot(incremental) = ProverRoot(prover)
           /\ db_proofs = call.proofs

\* a call that ingested two leaves has returned MismatchedRoots
C18_Witness ==
    /\ Returned
    /\ result.kind = "MismatchedRoots"
    /\ Len(IngestedInCall) >= 2
    /\ ProverCount(prover) = call.count + 2

\* ------------------------------------------------------------ C19
\* C19: a MismatchedRoots error of update_from_batch always carries equal
\* prover_root and incremental_root and a checkpoint_root that differs from
\* them; roots of the two trees that differ end the process at the
\* ingestion that produced them and never reach the comparison.
C19_MismatchIsWithCheckpoint ==
    /\ result.kind = "MismatchedRoots"
            => /\ result.roots[1] = result.roots[2]
               /\ result.roots[1] # result.roots[3]
    /\ pc = "validate" => ProverRoot(prover) = IncrementalRoot(incremental)

\* MismatchedRoots has been returned by a call that ingested a leaf
C19_Witness ==
    /\ Returned
    /\ result.kind = "MismatchedRoots"
    /\ result.roots[1] = ProverRoot(prover)
    /\ Len(IngestedInCall) >= 1

\* ------------------------------------------------------------ C20
\* C20: whatever leaves the DB holds and whatever its latest root is, a
\* from_disk that has begun ends: it returns a TipProver or the process
\* aborts.
C20_RecoveryTerminates == InFromDisk ~> (pc \in {"ready", "aborted"})

\* the longest replay has ended: from_disk has returned with every leaf of a
\* full DB ingested and proved
C20_Witness ==
    /\ FromDiskReturned
    /\ db_latest_root.some
    /\ Len(db_leaves) = MaxLeaves
    /\ ingest_log = Contiguous(MaxLeaves)
    /\ \A k \in 0 .. MaxLeaves - 1 : ProofPresent(db_proofs, k)
====
